---------------------------- MODULE Spec2Model ----------------------------
(***************************************************************************)
(* Model of app/lib/modules/llm/providers/nvidia.ts (class NVIDIAProvider). *)
(*                                                                         *)
(* JavaScript strings that the code inspects character by character        *)
(* (model identifiers: startsWith, includes, Array.includes) are sequences *)
(* of one-character strings.  Strings that the code only concatenates or   *)
(* passes on (URLs, API keys, header values) are TLA+ strings.  An         *)
(* optional JavaScript value (a field that may be undefined) is a sequence *)
(* of length 0 (undefined) or 1 (the value).                               *)
(***************************************************************************)
EXTENDS Integers, Sequences, FiniteSets, TLC

\* Longest remote `data` array the environment returns.
MaxRecords == 2

None == << >>
Some(x) == << x >>
IsSome(o) == Len(o) = 1
Val(o) == o[1]

\* JavaScript truthiness of an optional string: undefined and "" are falsy.
TruthyStr(o) == IsSome(o) /\ Val(o) # ""
\* JavaScript truthiness of an optional number: undefined and 0 are falsy.
TruthyNum(o) == IsSome(o) /\ Val(o) # 0

\* String.prototype.startsWith / includes on character sequences.
startsWith(s, p) == Len(s) >= Len(p) /\ SubSeq(s, 1, Len(p)) = p
includes(s, p) == \E i \in 1..(Len(s) - Len(p) + 1) : SubSeq(s, i, i + Len(p) - 1) = p

\* Number -> decimal string, as template-literal interpolation does it.
Digit(d) == CASE d = 0 -> "0" [] d = 1 -> "1" [] d = 2 -> "2" [] d = 3 -> "3"
              [] d = 4 -> "4" [] d = 5 -> "5" [] d = 6 -> "6" [] d = 7 -> "7"
              [] d = 8 -> "8" [] d = 9 -> "9"
RECURSIVE NatToString(_)
NatToString(n) == IF n < 10 THEN << Digit(n) >>
                  ELSE NatToString(n \div 10) \o << Digit(n % 10) >>
NumberToString(n) == IF n < 0 THEN << "-" >> \o NatToString(-n) ELSE NatToString(n)

\* Math.floor(x / 1000) on integers; \div rounds toward minus infinity.
FloorDiv1000(x) == x \div 1000
\* Math.min
Min(a, b) == IF a < b THEN a ELSE b

(***************************************************************************)
(* Identifier literals of the source.                                      *)
(***************************************************************************)
S_gpt_dash == <<"g","p","t","-">>
S_o == <<"o">>
S_chatgpt_dash == <<"c","h","a","t","g","p","t","-">>
S_gpt_4o == <<"g","p","t","-","4","o">>
S_gpt_4o_mini == <<"g","p","t","-","4","o","-","m","i","n","i">>
S_gpt_35_turbo == <<"g","p","t","-","3",".","5","-","t","u","r","b","o">>
S_gpt_4_turbo == <<"g","p","t","-","4","-","t","u","r","b","o">>
S_gpt_4_1106 == <<"g","p","t","-","4","-","1","1","0","6">>
S_gpt_4 == <<"g","p","t","-","4">>
S_o1_preview == <<"o","1","-","p","r","e","v","i","e","w">>
S_o1_mini == <<"o","1","-","m","i","n","i">>
S_o1 == <<"o","1">>
S_o3 == <<"o","3">>
S_o4 == <<"o","4">>
S_qwen == <<"q","w","e","n","/","q","w","e","n","3","-","c","o","d","e","r","-","4","8","0","b","-","a","3","5","b","-","i","n","s","t","r","u","c","t">>
S_kimi == <<"m","o","o","n","s","h","o","t","a","i","/","k","i","m","i","-","k","2","-","i","n","s","t","r","u","c","t","-","0","9","0","5">>

\* this.name
name == "NVIDIA"
\* this.config.baseUrl
DefaultBaseUrl == "https://integrate.api.nvidia.com/v1"
\* The literal of the models endpoint used when no base URL resolves.
DefaultModelsUrl == "https://integrate.api.nvidia.com/v1/models"
\* The key literal that getModelInstance substitutes when none resolves.
HardcodedApiKey == "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"

ModelInfo(n, l, ctx, out) ==
  [name |-> n, label |-> l, provider |-> name, maxTokenAllowed |-> ctx, maxCompletionTokens |-> out]

staticModels == <<
  ModelInfo(S_gpt_4o, << "GPT-4o" >>, 128000, 4096),
  ModelInfo(S_gpt_4o_mini, << "GPT-4o Mini" >>, 128000, 4096),
  ModelInfo(S_gpt_35_turbo, << "GPT-3.5 Turbo" >>, 16000, 4096),
  ModelInfo(S_o1_preview, << "o1-preview" >>, 128000, 32000),
  ModelInfo(S_o1_mini, << "o1-mini" >>, 128000, 65000),
  ModelInfo(S_qwen, << "Qwen3 Coder 480B" >>, 32000, 8192),
  ModelInfo(S_kimi, << "Kimi K2 Instruct" >>, 32000, 8192) >>

\* this.staticModels.map((m) => m.name)
staticModelIds == [i \in 1..Len(staticModels) |-> staticModels[i].name]
\* Array.prototype.includes on a list of identifiers (exact comparison).
ArrayIncludes(arr, x) == \E i \in 1..Len(arr) : arr[i] = x


(***************************************************************************)
(* Credential resolution (BaseProvider.getProviderBaseUrlAndKey).  A       *)
(* source supplies an optional API key and an optional base URL; the first *)
(* source, in the order caller keys, provider settings, server             *)
(* environment, that supplies a value decides it.                          *)
(***************************************************************************)
FirstOf(a, b, c) == IF TruthyStr(a) THEN a
                    ELSE IF TruthyStr(b) THEN b
                    ELSE IF TruthyStr(c) THEN c ELSE None
getProviderBaseUrlAndKey(keys, providerSettings, env) ==
  [apiKey |-> FirstOf(keys.apiKey, providerSettings.apiKey, env.apiKey),
   baseUrl |-> FirstOf(keys.baseUrl, providerSettings.baseUrl, env.baseUrl)]

(***************************************************************************)
(* getDynamicModels: the request, the filter and the transformation.       *)
(***************************************************************************)
\* Mutant: the models URL ignores the resolved base URL.
modelsUrl_IgnoresBaseUrl(baseUrl) == DefaultModelsUrl
\* const modelsUrl = baseUrl ? `${baseUrl}/models` : '...v1/models'
modelsUrl(baseUrl) == IF TruthyStr(baseUrl) THEN Val(baseUrl) \o "/models" ELSE DefaultModelsUrl
\* headers of both the fetch and the client
Headers(apiKey) == [Authorization |-> "Bearer " \o apiKey, ContentType |-> "application/json"]

\* The filter callback throws a TypeError on model.id.startsWith when the
\* record says object === 'model' and has no id (&& short-circuits otherwise).
FilterThrows(model) == model.object = "model" /\ ~IsSome(model.id)
\* Mutant: the chatgpt- prefix is forgotten.
PrefixMatches_NoChatgpt(id) == startsWith(id, S_gpt_dash) \/ startsWith(id, S_o)
\* model.id.startsWith('gpt-') || model.id.startsWith('o') || model.id.startsWith('chatgpt-')
PrefixMatches(id) == startsWith(id, S_gpt_dash) \/ startsWith(id, S_o) \/ startsWith(id, S_chatgpt_dash)
\* The filter callback's value where it does not throw.
FilterKeeps(model) ==
  /\ model.object = "model"
  /\ PrefixMatches(Val(model.id))
  /\ ~ArrayIncludes(staticModelIds, Val(model.id))

\* let contextWindow = 32000; if (m.context_length) ... else if ...
contextWindow(m) ==
  IF TruthyNum(m.context_length) THEN Val(m.context_length)
  ELSE IF includes(Val(m.id), S_gpt_4o) THEN 128000
  ELSE IF includes(Val(m.id), S_gpt_4_turbo) \/ includes(Val(m.id), S_gpt_4_1106) THEN 128000
  ELSE IF includes(Val(m.id), S_gpt_4) THEN 8192
  ELSE IF includes(Val(m.id), S_gpt_35_turbo) THEN 16385
  ELSE 32000

\* let maxCompletionTokens = 4096; if (m.id?.startsWith('o1-preview')) ...
maxCompletionTokens(m) ==
  IF startsWith(Val(m.id), S_o1_preview) THEN 32000
  ELSE IF startsWith(Val(m.id), S_o1_mini) THEN 65000
  ELSE IF startsWith(Val(m.id), S_o1) THEN 32000
  ELSE IF includes(Val(m.id), S_o3) \/ includes(Val(m.id), S_o4) THEN 100000
  ELSE IF includes(Val(m.id), S_gpt_4o) THEN 4096
  ELSE IF includes(Val(m.id), S_gpt_4) THEN 8192
  ELSE IF includes(Val(m.id), S_gpt_35_turbo) THEN 4096
  ELSE 4096

\* label: `${m.id} (${Math.floor(contextWindow / 1000)}k context)`
Label(m) == Val(m.id) \o << " (" >> \o NumberToString(FloorDiv1000(contextWindow(m))) \o << "k context)" >>
\* maxTokenAllowed: Math.min(contextWindow, 128000)
MaxTokenAllowed(m) == Min(contextWindow(m), 128000)

\* The object the map callback returns.
Transform(m) ==
  [name |-> Val(m.id),
   label |-> Label(m),
   provider |-> "NVIDIA",
   maxTokenAllowed |-> MaxTokenAllowed(m),
   maxCompletionTokens |-> maxCompletionTokens(m)]

\* res.data.filter(...) where no callback throws
FilterData(data) == SelectSeq(data, FilterKeeps)
\* data.map(...)
MapData(data) == [i \in 1..Len(data) |-> Transform(data[i])]

Returned(models) == [kind |-> "returned", error |-> "", models |-> models]
Thrown(e) == [kind |-> "thrown", error |-> e, models |-> << >>]
Pending == [kind |-> "none", error |-> "", models |-> << >>]

MissingKeyError == "Missing API Key configuration for NVIDIA API"

\* What the call settles with once fetch has resolved with `body`:
\* response.json() rejects on a body that is not JSON; res.data.filter is a
\* TypeError when res has no data; a throwing filter callback rejects the call.
AfterFetch(body) ==
  IF ~body.json THEN Thrown("SyntaxError")
  ELSE IF ~IsSome(body.data) THEN Thrown("TypeError")
  ELSE IF \E i \in 1..Len(Val(body.data)) : FilterThrows(Val(body.data)[i]) THEN Thrown("TypeError")
  ELSE Returned(MapData(FilterData(Val(body.data))))

(***************************************************************************)
(* getModelInstance                                                        *)
(***************************************************************************)
\* Mutant: no fallback literal, the undefined key is passed on.
InstanceApiKey_NoFallback(apiKey) == IF IsSome(apiKey) THEN Val(apiKey) ELSE "undefined"
\* if (!apiKey) apiKey = 'nvapi-...'
InstanceApiKey(apiKey) == IF TruthyStr(apiKey) THEN Val(apiKey) ELSE HardcodedApiKey
\* baseURL: baseUrl || 'https://integrate.api.nvidia.com/v1'
InstanceBaseUrl(baseUrl) == IF TruthyStr(baseUrl) THEN Val(baseUrl) ELSE DefaultBaseUrl
\* createOpenAI({baseURL, apiKey, headers})(model): the handle carries its settings.
createOpenAI(baseURL, apiKey, headers, model) ==
  [baseURL |-> baseURL, apiKey |-> apiKey, headers |-> headers, modelId |-> model]

(***************************************************************************)
(* Inputs: the credential sources and what the remote endpoint answers.    *)
(***************************************************************************)
CallerKeys == [apiKey : {None, Some("key-caller")}, baseUrl : {None, Some("https://caller.example/v1")}]
ProviderSettings == [apiKey : {None, Some("key-settings")}, baseUrl : {None, Some("https://settings.example/v1")}]
ServerEnvs == [apiKey : {None, Some("key-env")}, baseUrl : {None, Some("https://env.example/v1")}]

R_gpt_4o_2025 == <<"g","p","t","-","4","o","-","2","0","2","5">>
R_o1_preview_v2 == <<"o","1","-","p","r","e","v","i","e","w","-","v","2">>
R_omni_moderation == <<"o","m","n","i","-","m","o","d","e","r","a","t","i","o","n">>
R_gpt_o3 == <<"g","p","t","-","o","3">>
R_chatgpt_4o_latest == <<"c","h","a","t","g","p","t","-","4","o","-","l","a","t","e","s","t">>
R_o3_mini == <<"o","3","-","m","i","n","i">>
R_gpt_35_turbo_16k == <<"g","p","t","-","3",".","5","-","t","u","r","b","o","-","1","6","k">>
R_text_embedding_3 == <<"t","e","x","t","-","e","m","b","e","d","d","i","n","g","-","3">>
R_gpt_4_0613 == <<"g","p","t","-","4","-","0","6","1","3">>
R_gpt_4_turbo_2024 == <<"g","p","t","-","4","-","t","u","r","b","o","-","2","0","2","4">>
R_gpt_5 == <<"g","p","t","-","5">>

Record(id, object, ctx) == [id |-> id, object |-> object, context_length |-> ctx]

\* Records of the remote list: identifiers of every prefix family and of none,
\* a static identifier, a record without id, another object type, and
\* context_length absent, zero, negative, in range and above the cap.
RemoteRecords ==
  { Record(Some(R_gpt_4o_2025), "model", None),
    Record(Some(R_o1_preview_v2), "model", Some(200000)),
    Record(Some(S_gpt_4o), "model", None),
    Record(Some(R_omni_moderation), "model", None),
    Record(Some(R_gpt_o3), "model", None),
    Record(Some(R_chatgpt_4o_latest), "model", Some(64000)),
    Record(Some(R_o3_mini), "model", None),
    Record(Some(R_gpt_35_turbo_16k), "model", Some(0)),
    Record(Some(R_text_embedding_3), "model", None),
    Record(Some(R_gpt_4_0613), "model", None),
    Record(Some(R_gpt_4_turbo_2024), "model", Some(-1)),
    Record(Some(R_gpt_5), "list", None),
    Record(None, "model", None) }

RECURSIVE SeqsUpTo(_, _)
SeqsUpTo(S, n) == IF n = 0 THEN { << >> }
                  ELSE LET shorter == SeqsUpTo(S, n - 1)
                       IN shorter \cup { Append(q, x) : q \in shorter, x \in S }

\* Response bodies: not JSON, JSON without a data field, JSON with data.
Bodies == { [json |-> FALSE, data |-> None], [json |-> TRUE, data |-> None] }
          \cup { [json |-> TRUE, data |-> Some(d)] : d \in SeqsUpTo(RemoteRecords, MaxRecords) }
Statuses == { 200, 500 }
ModelNames == { "gpt-4o" }

(***************************************************************************)
(* State                                                                   *)
(***************************************************************************)
VARIABLES
  apiKeys,      \* the caller's key map
  settings,     \* the provider's persisted setting
  serverEnv,    \* the server environment
  pc,           \* position of the getDynamicModels call: idle, fetching, done
  netCalls,     \* number of HTTP requests issued so far
  request,      \* the request getDynamicModels issued, if any
  response,     \* what that request settled with, if it has
  outcome,      \* what the getDynamicModels call settled with
  handle        \* what getModelInstance returned, if it was called

vars == << apiKeys, settings, serverEnv, pc, netCalls, request, response, outcome, handle >>

Init ==
  /\ apiKeys \in CallerKeys
  /\ settings \in ProviderSettings
  /\ serverEnv \in ServerEnvs
  /\ pc = "idle"
  /\ netCalls = 0
  /\ request = None
  /\ response = None
  /\ outcome = Pending
  /\ handle = None

\* Mutant: the missing-key check is skipped and the fetch is issued anyway.
GetDynamicModelsCall_NoKeyCheck ==
  /\ pc = "idle"
  /\ LET r == getProviderBaseUrlAndKey(apiKeys, settings, serverEnv)
         key == IF IsSome(r.apiKey) THEN Val(r.apiKey) ELSE "undefined"
     IN /\ request' = Some([url |-> modelsUrl(r.baseUrl), headers |-> Headers(key)])
        /\ netCalls' = netCalls + 1
        /\ pc' = "fetching"
        /\ UNCHANGED outcome
  /\ UNCHANGED << apiKeys, settings, serverEnv, response, handle >>

\* getDynamicModels up to its first await: resolve, throw or issue the fetch.
GetDynamicModelsCall ==
  /\ pc = "idle"
  /\ LET r == getProviderBaseUrlAndKey(apiKeys, settings, serverEnv)
     IN IF ~TruthyStr(r.apiKey)
        THEN /\ outcome' = Thrown(MissingKeyError)
             /\ pc' = "done"
             /\ UNCHANGED << netCalls, request >>
        ELSE /\ request' = Some([url |-> modelsUrl(r.baseUrl), headers |-> Headers(Val(r.apiKey))])
             /\ netCalls' = netCalls + 1
             /\ pc' = "fetching"
             /\ UNCHANGED outcome
  /\ UNCHANGED << apiKeys, settings, serverEnv, response, handle >>

\* fetch rejects (network failure): the rejection propagates to the caller.
FetchRejects ==
  /\ pc = "fetching"
  /\ response' = Some([network |-> FALSE, status |-> 0, body |-> [json |-> FALSE, data |-> None]])
  /\ outcome' = Thrown("FetchError")
  /\ pc' = "done"
  /\ UNCHANGED << apiKeys, settings, serverEnv, netCalls, request, handle >>

\* fetch resolves with any status; the rest of getDynamicModels runs.
FetchResolves ==
  /\ pc = "fetching"
  /\ \E status \in Statuses, body \in Bodies :
       /\ response' = Some([network |-> TRUE, status |-> status, body |-> body])
       /\ outcome' = AfterFetch(body)
  /\ pc' = "done"
  /\ UNCHANGED << apiKeys, settings, serverEnv, netCalls, request, handle >>

\* getModelInstance({model, serverEnv, apiKeys, providerSettings})
GetModelInstance ==
  /\ handle = None
  /\ \E model \in ModelNames :
       LET providerSettings == [p \in {name} |-> settings]
           baseUrl == getProviderBaseUrlAndKey(apiKeys, providerSettings[name], serverEnv).baseUrl
           apiKey == InstanceApiKey(getProviderBaseUrlAndKey(apiKeys, providerSettings[name], serverEnv).apiKey)
       IN handle' = Some(createOpenAI(InstanceBaseUrl(baseUrl), apiKey, Headers(apiKey), model))
  /\ UNCHANGED << apiKeys, settings, serverEnv, pc, netCalls, request, response, outcome >>

Next == GetDynamicModelsCall \/ FetchRejects \/ FetchResolves \/ GetModelInstance

Spec == Init /\ [][Next]_vars

(***************************************************************************)
(* Vocabulary of the properties                                            *)
(***************************************************************************)
Resolved == getProviderBaseUrlAndKey(apiKeys, settings, serverEnv)
NoKeyResolves == ~TruthyStr(Resolved.apiKey)
CallReturned == pc = "done" /\ outcome.kind = "returned"
\* The data array of the response the call received.
RemoteData == Val(Val(response).body.data)
DigitChars == {"0", "1", "2", "3", "4", "5", "6", "7", "8", "9"}
\* "gpt-", "chatgpt-", or the letter o followed by a digit
NamingPrefix(id) ==
  \/ startsWith(id, S_gpt_dash)
  \/ startsWith(id, S_chatgpt_dash)
  \/ (Len(id) >= 2 /\ id[1] = "o" /\ id[2] \in DigitChars)
StaticIdSet == { staticModels[i].name : i \in 1..Len(staticModels) }
\* A remote record meeting the three conditions of the filtering policy.
Qualifies(rec) ==
  /\ rec.object = "model"
  /\ IsSome(rec.id)
  /\ NamingPrefix(Val(rec.id))
  /\ Val(rec.id) \notin StaticIdSet
HasNamingPrefix(d) == NamingPrefix(d.name)
Names(seq) == [i \in 1..Len(seq) |-> seq[i].name]
Ids(seq) == [i \in 1..Len(seq) |-> Val(seq[i].id)]
Distinct(seq) == \A i, j \in 1..Len(seq) : i # j => seq[i] # seq[j]

\* C1: whenever no API key resolves, getDynamicModels fails with the
\* missing-credential error and no HTTP request is ever issued: the call never
\* reaches the fetch, the request count stays 0 and no request is recorded.
C1_MissingKeyFailsWithoutRequest ==
  NoKeyResolves =>
    /\ pc # "fetching"
    /\ netCalls = 0
    /\ request = None
    /\ response = None
    /\ (pc = "done" => outcome = Thrown(MissingKeyError))
C1_Witness == NoKeyResolves /\ pc = "done" /\ outcome.kind = "thrown"

\* C2: every returned descriptor comes from a remote record whose object is
\* "model", whose id begins with "gpt-", "chatgpt-" or "o" + digit, and whose id
\* is not a static catalog identifier.
C2_OnlyQualifyingRecordsReturned ==
  CallReturned =>
    \A i \in 1..Len(outcome.models) :
      \E k \in 1..Len(RemoteData) :
        /\ Qualifies(RemoteData[k])
        /\ Val(RemoteData[k].id) = outcome.models[i].name

\* C3: the records that qualify (object "model", id with a naming prefix, id
\* not static) yield one descriptor each, in the order of the remote response:
\* the returned descriptors with a naming prefix are, in order, the
\* transformed qualifying records.
C3_QualifyingRecordsKeptInOrder ==
  CallReturned =>
    /\ Names(SelectSeq(outcome.models, HasNamingPrefix)) = Ids(SelectSeq(RemoteData, Qualifies))
    /\ \A k \in 1..Len(RemoteData) :
         Qualifies(RemoteData[k]) =>
           \E i \in 1..Len(outcome.models) :
             /\ outcome.models[i].name = Val(RemoteData[k].id)
             /\ outcome.models[i].provider = "NVIDIA"
C3_Witness ==
  /\ CallReturned
  /\ Len(RemoteData) = 2
  /\ Qualifies(RemoteData[1]) /\ Qualifies(RemoteData[2])
  /\ RemoteData[1].id # RemoteData[2].id
  /\ Len(outcome.models) = 2
  /\ outcome.models[1].name = Val(RemoteData[1].id)

\* C4: the snapshot static catalog + returned list holds no identifier twice.
C4_SnapshotIdentifiersUnique ==
  CallReturned => Distinct(Names(staticModels \o outcome.models))

\* C5: every descriptor, static or returned, has 0 < maxTokenAllowed <= 128000.
C5_MaxContextTokensBounded ==
  /\ \A i \in 1..Len(staticModels) :
       staticModels[i].maxTokenAllowed > 0 /\ staticModels[i].maxTokenAllowed <= 128000
  /\ CallReturned =>
       \A i \in 1..Len(outcome.models) :
         outcome.models[i].maxTokenAllowed > 0 /\ outcome.models[i].maxTokenAllowed <= 128000

\* C6: the call returns a list only after exactly one GET that succeeded (no
\* network failure, no HTTP failure status) with a data sequence in the
\* response; otherwise it ends in an error; never a second request.
C6_ListOnlyAfterOneSuccessfulGet ==
  /\ netCalls <= 1
  /\ pc = "done" =>
       IF /\ netCalls = 1
          /\ IsSome(response)
          /\ Val(response).network
          /\ Val(response).status < 400
          /\ IsSome(Val(response).body.data)
       THEN outcome.kind \in {"returned", "thrown"}
       ELSE outcome.kind = "thrown"

\* C7: getModelInstance always returns a handle and issues no request; the
\* handle's apiKey and bearer value are the same key: the resolved key when
\* one resolves, the embedded literal only when none does.
C7_InstanceAlwaysBuiltWithOneKey ==
  /\ handle = None => ENABLED GetModelInstance
  /\ netCalls = Len(request)   \* every request counted is the one getDynamicModels recorded
  /\ IsSome(handle) =>
       /\ Val(handle).headers.Authorization = "Bearer " \o Val(handle).apiKey
       /\ Val(handle).apiKey = IF NoKeyResolves THEN HardcodedApiKey ELSE Val(Resolved.apiKey)
C7_Witness ==
  /\ IsSome(handle)
  /\ NoKeyResolves
  /\ Val(handle).apiKey = HardcodedApiKey
  /\ netCalls = 0

C9_CompletionTokensFollowPrefixTier ==
  CallReturned =>
    \A i \in 1..Len(outcome.models) :
      LET d == outcome.models[i]
          reasoning == startsWith(d.name, S_o1) \/ startsWith(d.name, S_o3) \/ startsWith(d.name, S_o4)
      IN /\ d.maxCompletionTokens \in {4096, 8192, 32000, 65000, 100000}
         /\ (startsWith(d.name, S_gpt_dash) \/ startsWith(d.name, S_chatgpt_dash))
              => d.maxCompletionTokens <= 8192
         /\ d.maxCompletionTokens \in {32000, 65000, 100000} => reasoning

\* C10: the label of a returned descriptor is "<name> (<N>k context)" with
\* N = that descriptor's maxTokenAllowed divided by 1000, rounded down.
C10_LabelShowsDescriptorContext ==
  CallReturned =>
    \A i \in 1..Len(outcome.models) :
      LET d == outcome.models[i]
      IN d.label = d.name \o << " (" >> \o NumberToString(d.maxTokenAllowed \div 1000) \o << "k context)" >>

=============================================================================
